---- MODULE Spec2Model ----
(***************************************************************************)
(* LinguaComic: the generation pipeline of App (src/App.tsx), the input    *)
(* form (InputSection), the comic panel editor (ComicGenerator, EditForm), *)
(* the logic graph editor (LogicGraph) and the two collaborators           *)
(* (analyzeContent, generateImage), as one state machine.                  *)
(*                                                                         *)
(* One step of the machine is one JavaScript task: an event handler, or    *)
(* the continuation of an await once the awaited request has settled.      *)
(* React state is the value the next render sees.                          *)
(***************************************************************************)
EXTENDS Integers, Sequences, FiniteSets, TLC

(* ------------------------------ bounds -------------------------------- *)
\* handleAnalyze invocations in one behaviour, those still waiting for
\* their FileReader included
MaxRuns == 2
\* comic panels / vocabulary items an analysis response may hold
MaxPanels == 2
MaxVocab == 1
\* regenerate requests in flight at one time
MaxRegens == 2
\* user operations in one behaviour whose effect may meet another one's:
\* a submit with an image file, Save Text, Save Changes, Redraw
MaxOps == 2
\* LogicGraph alone: the add and update edits of the scratch copy in one
\* behaviour, the nodes and links the scratch copy may hold, the readings
\* of the clock, the drag gestures in progress at one time, the positions
\* of the layout (0..MaxPos)
MaxEdits == 3
MaxNodes == 4
MaxLinks == 2
MaxClock == 2
MaxDrags == 2
MaxPos == 2

(* ------------------------------ values -------------------------------- *)
\* a null React state (data, EditForm) is the empty tuple, a value is <<v>>
Null == <<>>
Some(v) == <<v>>
Val(o) == o[1]

\* AppState (src/types.ts)
AppStates == {"IDLE", "ANALYZING", "GENERATING_IMAGES", "COMPLETE", "ERROR"}

\* errorMsg: null, or the text set by the catch of handleAnalyze
NoMsg == "null"
ErrText == "Something went wrong. Please check your API key or try simpler content."

\* imageUrl of a panel or vocabulary item: absent, an image the model
\* returned, or the URL generateImage returns when the call failed
NoImage == "undefined"
Images == {"data:image/png;base64,A"}
FailedUrl == "https://picsum.photos/400/300?blur=2&text=Image+Gen+Failed"

\* the text of the input form: empty, blank (white space only), or content
Content == "Water cycle"
Texts == {"", " ", Content}
TrimNothing(t) == t

\* String.prototype.trim on the texts above
Trim(t) == IF t = " " THEN "" ELSE t

Captions == {"cap0", "cap1"}
Dialogues == {"dlg0", "dlg1"}
Summaries == {"s1"}

(* ------------------------- analysis responses ------------------------- *)
NewPanel(i) ==
    [panelId |-> i, visualPrompt |-> "vp", caption |-> "cap0",
     characterDialogue |-> "dlg0", imageUrl |-> NoImage]

NewVocab(j) ==
    [word |-> j, definition |-> "def", example |-> "ex",
     visualPrompt |-> "vp", imageUrl |-> NoImage]

Graph0 ==
    [nodes |-> <<[id |-> "a", label |-> "A", group |-> 1],
                 [id |-> "b", label |-> "B", group |-> 2]>>,
     links |-> <<[source |-> "a", target |-> "b", relationship |-> "r"]>>]

\* what JSON.parse(text) as AnalysisResult yields: the cast checks nothing,
\* so a response may lack comicScript or vocabulary (field "missing")
AnalysisResult(s, n, m, miss) ==
    [summary |-> s,
     comicScript |-> IF "comicScript" \in miss THEN <<>> ELSE [i \in 1..n |-> NewPanel(i)],
     logicGraph |-> Graph0,
     vocabulary |-> IF "vocabulary" \in miss THEN <<>> ELSE [j \in 1..m |-> NewVocab(j)],
     missing |-> miss]

\* the lists of a response are both empty or both of the greatest length
Shapes == {<<0, 0>>, <<MaxPanels, MaxVocab>>}

ValidResults ==
    {AnalysisResult(s, sh[1], sh[2], {}) : s \in Summaries, sh \in Shapes}

MalformedResults ==
    {AnalysisResult("s1", 1, 1, {"comicScript"}), AnalysisResult("s1", 1, 1, {"vocabulary"})}


(* ------------------------------- state -------------------------------- *)
VARIABLES
    appState,   \* App: useState<AppState>
    data,       \* App: useState<AnalysisResult | null>
    activeTab,  \* App: useState<'comic' | 'logic' | 'vocab'>
    errorMsg,   \* App: useState<string | null>
    input,      \* InputSection: text, selectedFile
    reads,      \* the number of handleSubmit invocations awaiting their FileReader
    runs,       \* the handleAnalyze invocations, in order of invocation
    resume,     \* the run whose continuation after Promise.all is queued, or 0
    cg,         \* ComicGenerator: editingId, isRegenerating, and the EditForm
    regens,     \* handleRegeneratePanelImage invocations awaiting generateImage
    lg,         \* LogicGraph: isEditing, editData
    ops         \* history: the user operations counted by MaxOps so far

vars == <<appState, data, activeTab, errorMsg, input, reads, runs, resume, cg, regens, lg, ops>>

EmptyGraph == [nodes |-> <<>>, links |-> <<>>]

(* ------------------- the layout of LogicGraph (d3) -------------------- *)
\* The simulation effect of LogicGraph owns one d3 force simulation: status
\* is "none" (no effect has run), "running", "stopped" (cleanup ran and no
\* new one was built) or "crashed" (the effect threw). Its nodes are copies
\* of the data nodes with a position x and a pin fx; y and fy are handled as
\* x and fx are, and are left out. dragging is the set of nodes (by index)
\* with a drag gesture in progress.
NoSim == [status |-> "none", nodes |-> <<>>, dragging |-> {}]
StoppedSim == [status |-> "stopped", nodes |-> <<>>, dragging |-> {}]
CrashedSim == [status |-> "crashed", nodes |-> <<>>, dragging |-> {}]

NodeIds(g) == {g.nodes[i].id : i \in DOMAIN g.nodes}

\* forceLink(links).id(d => d.id) looks up each link's source and target
\* among the node ids and throws ("node not found") when one is missing
Dangling(g) ==
    \E k \in DOMAIN g.links :
        g.links[k].source \notin NodeIds(g) \/ g.links[k].target \notin NodeIds(g)

\* the position d3 gives a node that has none when the simulation is created
StartPos == 0

\* the simulation effect, isEditing false: fresh copies of data.nodes and
\* data.links, a new simulation
BuildLayout(g) ==
    IF Dangling(g) THEN CrashedSim
    ELSE [status |-> "running",
          nodes |-> [i \in DOMAIN g.nodes |-> [id |-> g.nodes[i].id, x |-> StartPos, fx |-> Null]],
          dragging |-> {}]

EffectReusesLayout(l, g, changed) ==
    IF ~changed THEN l
    ELSE IF l.isEditing THEN [l EXCEPT !.sim.status = "stopped"]
    ELSE IF Dangling(g) THEN [l EXCEPT !.sim = CrashedSim]
    ELSE IF Len(l.sim.nodes) = Len(g.nodes) THEN [l EXCEPT !.sim.status = "running"]
    ELSE [l EXCEPT !.sim = BuildLayout(g)]

EffectNoCleanup(l, g, changed) ==
    IF ~changed \/ l.isEditing THEN l
    ELSE [l EXCEPT !.sim = BuildLayout(g)]

\* the simulation effect after a render of the mounted LogicGraph: it runs
\* again when data or isEditing changed (cleanup first: simulation.stop()),
\* and returns at once while isEditing
Effect(l, g, changed) ==
    IF ~changed THEN l
    ELSE [l EXCEPT !.sim = IF l.isEditing THEN StoppedSim ELSE BuildLayout(g)]

InputInit == [text |-> "", selectedFile |-> FALSE]
CGInit == [editingId |-> 0, isRegenerating |-> 0, form |-> Null]
LGInit == [isEditing |-> FALSE, editData |-> EmptyGraph, sim |-> NoSim]

(* ----------------------- what App renders ----------------------------- *)
\* {(appState === IDLE || appState === ERROR) && <InputSection/>}
InputMounted(st) == st \in {"IDLE", "ERROR"}

\* {appState === COMPLETE && data && ( ... )}
ResultsShown(st, d) == st = "COMPLETE" /\ d # Null

CGMounted(st, d, tab) == ResultsShown(st, d) /\ tab = "comic"
LGMounted(st, d, tab) == ResultsShown(st, d) /\ tab = "logic"

PanelIds(script) == {script[i].panelId : i \in 1..Len(script)}

\* data.comicScript.find(p => p.panelId === panelId), for an id that is there
FindPanel(script, id) ==
    script[CHOOSE i \in 1..Len(script) :
              /\ script[i].panelId = id
              /\ \A j \in 1..(i - 1) : script[j].panelId # id]

\* The EditForm of the panel being edited: it is mounted (useState(panel)
\* takes the panel as rendered then) while a panel with editingId is rendered
SyncForm(c, script) ==
    IF c.editingId = 0 \/ c.editingId \notin PanelIds(script)
    THEN [c EXCEPT !.form = Null]
    ELSE IF c.form = Null
         THEN [c EXCEPT !.form = Some(FindPanel(script, c.editingId))]
         ELSE c

\* useEffect(() => setEditData(data), [data]): runs when the data prop is
\* another object; the model compares values
SyncEdit(l, g, old) == IF g # old THEN [l EXCEPT !.editData = g] ELSE l

\* One render of App after a task set (st, d, tab); inp, c, l, rg are the
\* component states the task leaves. A component that is unmounted loses
\* its state, and one that is mounted starts from its useState defaults.
Render(st, d, tab, inp, c, l, rg) ==
    /\ appState' = st
    /\ data' = d
    /\ activeTab' = tab
    /\ input' = IF InputMounted(st) /\ InputMounted(appState) THEN inp ELSE InputInit
    /\ cg' = IF CGMounted(st, d, tab) /\ CGMounted(appState, data, activeTab)
             THEN SyncForm(c, Val(d).comicScript)
             ELSE CGInit
    /\ lg' = IF LGMounted(st, d, tab)
             THEN IF LGMounted(appState, data, activeTab)
                  THEN Effect(SyncEdit(l, Val(d).logicGraph, Val(data).logicGraph),
                              Val(d).logicGraph,
                              Val(d).logicGraph # Val(data).logicGraph \/ l.isEditing # lg.isEditing)
                  ELSE [isEditing |-> FALSE, editData |-> Val(d).logicGraph,
                        sim |-> BuildLayout(Val(d).logicGraph)]
             ELSE LGInit
    /\ regens' = [k \in DOMAIN rg |->
                    [rg[k] EXCEPT !.alive =
                        @ /\ CGMounted(st, d, tab) /\ CGMounted(appState, data, activeTab)]]

\* An error thrown by an effect unmounts the whole tree (App has no error
\* boundary): nothing is rendered again and no handler can run.
Crashed == lg.sim.status = "crashed"

\* a task can start: no continuation of a run is queued before it, and App is mounted
Ready == resume = 0 /\ ~Crashed

(* ------------------------------- Init --------------------------------- *)
Init ==
    /\ appState = "IDLE"
    /\ data = Null
    /\ activeTab = "comic"
    /\ errorMsg = NoMsg
    /\ input = InputInit
    /\ reads = 0
    /\ runs = <<>>
    /\ resume = 0
    /\ cg = CGInit
    /\ regens = <<>>
    /\ lg = LGInit
    /\ ops = 0

(* ---------------------------- InputSection ---------------------------- *)
\* onChange={(e) => setText(e.target.value)}
SetText(t) ==
    /\ Ready
    /\ InputMounted(appState)
    /\ input.text # t
    /\ input' = [input EXCEPT !.text = t]
    /\ UNCHANGED <<appState, data, activeTab, errorMsg, reads, runs, resume, cg, regens, lg, ops>>

handleFileChange ==
    /\ Ready
    /\ InputMounted(appState)
    /\ ~input.selectedFile
    /\ input' = [input EXCEPT !.selectedFile = TRUE]
    /\ UNCHANGED <<appState, data, activeTab, errorMsg, reads, runs, resume, cg, regens, lg, ops>>

handleRemoveImage ==
    /\ Ready
    /\ InputMounted(appState)
    /\ input.selectedFile
    /\ input' = [input EXCEPT !.selectedFile = FALSE]
    /\ UNCHANGED <<appState, data, activeTab, errorMsg, reads, runs, resume, cg, regens, lg, ops>>

(* ------------------------------ the run ------------------------------- *)
InProgress(run) == run.pc \in {"analyzing", "generating", "joining"}

\* history only: a reset or the start of a run makes what is in flight stale
StaleRuns(rs) == [r \in DOMAIN rs |-> [rs[r] EXCEPT !.stale = @ \/ InProgress(rs[r])]]
StaleRegens(rg) == [k \in DOMAIN rg |-> [rg[k] EXCEPT !.stale = TRUE]]

NewRun ==
    [pc |-> "analyzing", result |-> Null,
     comic |-> <<>>, vocab |-> <<>>, stale |-> FALSE]

\* handleAnalyze up to its first await: there is no guard on appState. Its
\* arguments go to analyzeContent, whose outcome the model leaves open.
handleAnalyze ==
    /\ runs' = Append(StaleRuns(runs), NewRun)
    /\ errorMsg' = NoMsg
    /\ Render("ANALYZING", Null, activeTab, input, cg, lg, StaleRegens(regens))
    /\ UNCHANGED resume

\* InputSection.handleSubmit; the button is disabled={isLoading || (!text && !selectedFile)}
handleSubmit ==
    /\ Ready
    /\ InputMounted(appState)
    /\ ~(input.text = "" /\ ~input.selectedFile)
    /\ Len(runs) + reads < MaxRuns
    /\ IF Trim(input.text) = "" /\ ~input.selectedFile
       THEN UNCHANGED vars
       ELSE IF input.selectedFile
            THEN /\ ops < MaxOps
                 /\ ops' = ops + 1
                 /\ reads' = reads + 1
                 /\ UNCHANGED <<appState, data, activeTab, errorMsg, input, runs, resume, cg, regens, lg>>
            ELSE /\ handleAnalyze
                 /\ UNCHANGED <<reads, ops>>

\* reader.onload: the awaited promise resolves and handleSubmit goes on to
\* onAnalyze, whatever App shows by then
ReadDone ==
    /\ Ready
    /\ reads > 0
    /\ reads' = reads - 1
    /\ handleAnalyze
    /\ UNCHANGED ops

\* reader.onerror = reject
ReadFails ==
    /\ Ready
    /\ reads > 0
    /\ reads' = reads - 1
    /\ UNCHANGED <<appState, data, activeTab, errorMsg, input, runs, resume, cg, regens, lg, ops>>


(* ---------------------------- generateImage --------------------------- *)
\* generateImage once its request has settled: ok is whether the model
\* returned image data (img). Its catch turns every failure into a URL, so
\* it never rejects.
generateImage(ok, img) ==
    IF ok THEN [threw |-> FALSE, url |-> img] ELSE [threw |-> FALSE, url |-> FailedUrl]

\* ItemPromise without its catch, and generateImage rethrowing: a failed call
\* rejects the promise
ItemPromiseUncaught(item, ok, img) ==
    [rejected |-> ~ok, value |-> IF ok THEN [item EXCEPT !.imageUrl = img] ELSE item]

\* one element of comicPromises / vocabPromises, once its request settled:
\* try { imageUrl = await generateImage(..); return {...item, imageUrl} } catch { return item }
\* Its catch makes it resolve always.
ItemPromise(item, ok, img) ==
    LET g == generateImage(ok, img)
    IN  [rejected |-> FALSE,
         value |-> IF g.threw THEN item ELSE [item EXCEPT !.imageUrl = g.url]]

RequestsFirstOnly(items) ==
    [i \in DOMAIN items |->
        [status |-> IF i = 1 THEN "pending" ELSE "ok", value |-> items[i]]]

\* the requests of a batch, issued by result.comicScript.map / result.vocabulary.map
Requests(items) == [i \in DOMAIN items |-> [status |-> "pending", value |-> items[i]]]

Pending(batch) == {i \in DOMAIN batch : batch[i].status = "pending"}

\* awaiting the comic batch alone
FirstBatchSettled(run) == Pending(run.comic) = {}

\* Promise.all([Promise.all(comicPromises), Promise.all(vocabPromises)]) has resolved
AllSettled(run) == Pending(run.comic) = {} /\ Pending(run.vocab) = {}

\* Promise.all resolves to the values in the order of the promises
Values(batch) == [i \in DOMAIN batch |-> batch[i].value]

\* the promise at index i of a batch settled with item v
Settle(batch, i, ok, v) ==
    [batch EXCEPT ![i] = [status |-> IF ok THEN "ok" ELSE "fail", value |-> v]]

(* ------------------------- handleAnalyze, resumed --------------------- *)
\* await analyzeContent(..) rejects: network failure, empty text, JSON.parse
AnalysisFails(r) ==
    /\ Ready
    /\ runs[r].pc = "analyzing"
    /\ runs' = [runs EXCEPT ![r].pc = "rejected"]
    /\ errorMsg' = ErrText
    /\ Render("ERROR", data, activeTab, input, cg, lg, regens)
    /\ UNCHANGED <<reads, resume, ops>>

\* await analyzeContent(..) resolves to a result with both lists: setData,
\* GENERATING_IMAGES, and every request of both batches is issued
AnalysisReturns(r, res) ==
    /\ Ready
    /\ runs[r].pc = "analyzing"
    /\ LET run == [runs[r] EXCEPT !.result = Some(res),
                                  !.comic = Requests(res.comicScript),
                                  !.vocab = Requests(res.vocabulary)]
       IN  IF AllSettled(run)
           THEN runs' = [runs EXCEPT ![r] = [run EXCEPT !.pc = "joining"]] /\ resume' = r
           ELSE runs' = [runs EXCEPT ![r] = [run EXCEPT !.pc = "generating"]] /\ resume' = 0
    /\ Render("GENERATING_IMAGES", Some(res), activeTab, input, cg, lg, regens)
    /\ UNCHANGED <<errorMsg, reads, ops>>

\* await analyzeContent(..) resolves to a result that lacks a list: setData
\* and GENERATING_IMAGES, then .map of undefined throws into the catch. With
\* vocabulary missing the comic requests have been issued by then.
AnalysisReturnsMalformed(r, res) ==
    /\ Ready
    /\ runs[r].pc = "analyzing"
    /\ runs' = [runs EXCEPT ![r].pc = "threw",
                            ![r].comic = IF "comicScript" \in res.missing
                                         THEN <<>> ELSE Requests(res.comicScript)]
    /\ errorMsg' = ErrText
    /\ Render("ERROR", Some(res), activeTab, input, cg, lg, regens)
    /\ UNCHANGED <<reads, resume, ops>>

AfterSettleNeverResumes(run) == run

\* the run's pc once one more of its requests has settled
AfterSettle(run) ==
    IF run.pc = "generating" /\ AllSettled(run) THEN [run EXCEPT !.pc = "joining"] ELSE run

\* A promise of run r settled and left the run as run2. A rejected promise
\* rejects Promise.all at once, and the awaiting handleAnalyze goes to its catch.
PromiseSettled(r, run2, rejected) ==
    IF rejected /\ runs[r].pc = "generating"
    THEN /\ runs' = [runs EXCEPT ![r] = [run2 EXCEPT !.pc = "threw"]]
         /\ resume' = 0
         /\ errorMsg' = ErrText
         /\ Render("ERROR", data, activeTab, input, cg, lg, regens)
    ELSE /\ runs' = [runs EXCEPT ![r] = AfterSettle(run2)]
         /\ resume' = IF AfterSettle(run2).pc = "joining" THEN r ELSE 0
         /\ UNCHANGED <<appState, data, activeTab, errorMsg, input, cg, regens, lg>>

\* the generateImage request of panel i of run r settles
PanelImageSettles(r, i, ok, img) ==
    /\ Ready
    /\ i \in Pending(runs[r].comic)
    /\ LET p == ItemPromise(runs[r].comic[i].value, ok, img)
       IN  PromiseSettled(r, [runs[r] EXCEPT !.comic = Settle(@, i, ok, p.value)], p.rejected)
    /\ UNCHANGED <<reads, ops>>

\* the generateImage request of vocabulary item j of run r settles
VocabImageSettles(r, j, ok, img) ==
    /\ Ready
    /\ j \in Pending(runs[r].vocab)
    /\ LET p == ItemPromise(runs[r].vocab[j].value, ok, img)
       IN  PromiseSettled(r, [runs[r] EXCEPT !.vocab = Settle(@, j, ok, p.value)], p.rejected)
    /\ UNCHANGED <<reads, ops>>

\* setData(prev => prev ? {...prev, comicScript, vocabulary} : null)
Merge(prev, panelsWithImages, vocabWithImages) ==
    IF prev = Null THEN Null
    ELSE Some([Val(prev) EXCEPT !.comicScript = panelsWithImages,
                                !.vocabulary = vocabWithImages,
                                !.missing = {}])

\* handleAnalyze after await Promise.all(..): merge, then COMPLETE. The
\* invocation is over: its locals are dropped from the run's record.
Join(r) ==
    /\ resume = r
    /\ ~Crashed
    /\ r \in DOMAIN runs
    /\ runs[r].pc = "joining"
    /\ runs' = [runs EXCEPT ![r] = [NewRun EXCEPT !.pc = "complete"]]
    /\ resume' = 0
    /\ Render("COMPLETE", Merge(data, Values(runs[r].comic), Values(runs[r].vocab)),
              activeTab, input, cg, lg, regens)
    /\ UNCHANGED <<errorMsg, reads, ops>>

(* -------------------------------- App --------------------------------- *)
\* the Start Over button, rendered in the results view: setAppState(IDLE)
StartOver ==
    /\ Ready
    /\ ResultsShown(appState, data)
    /\ runs' = StaleRuns(runs)
    /\ Render("IDLE", data, activeTab, input, cg, lg, StaleRegens(regens))
    /\ UNCHANGED <<errorMsg, reads, resume, ops>>

\* the tab buttons of the results view
SetActiveTab(tab) ==
    /\ Ready
    /\ ResultsShown(appState, data)
    /\ tab # activeTab
    /\ Render(appState, data, tab, input, cg, lg, regens)
    /\ UNCHANGED <<errorMsg, reads, runs, resume, ops>>


(* --------------------- ComicGenerator and EditForm -------------------- *)
\* the Edit / Close button of panel p: setEditingId(editingId === p ? null : p)
ToggleEdit(p) ==
    /\ Ready
    /\ CGMounted(appState, data, activeTab)
    /\ p \in PanelIds(Val(data).comicScript)
    /\ cg' = SyncForm([cg EXCEPT !.editingId = IF @ = p THEN 0 ELSE p, !.form = Null],
                      Val(data).comicScript)
    /\ UNCHANGED <<appState, data, activeTab, errorMsg, input, reads, runs, resume, regens, lg, ops>>

\* EditForm: onChange={e => setData({...data, caption: e.target.value})}
EditCaption(c) ==
    /\ Ready
    /\ cg.form # Null
    /\ Val(cg.form).caption # c
    /\ cg' = [cg EXCEPT !.form = Some([Val(@) EXCEPT !.caption = c])]
    /\ UNCHANGED <<appState, data, activeTab, errorMsg, input, reads, runs, resume, regens, lg, ops>>

\* EditForm: onChange={e => setData({...data, characterDialogue: e.target.value})}
EditDialogue(d) ==
    /\ Ready
    /\ cg.form # Null
    /\ Val(cg.form).characterDialogue # d
    /\ cg' = [cg EXCEPT !.form = Some([Val(@) EXCEPT !.characterDialogue = d])]
    /\ UNCHANGED <<appState, data, activeTab, errorMsg, input, reads, runs, resume, regens, lg, ops>>

\* ReplacePanel as an upsert: a panel whose id matches none is appended
ReplacePanelOrAppend(script, panelId, updatedPanel) ==
    IF panelId \in PanelIds(script)
    THEN [i \in DOMAIN script |-> IF script[i].panelId = panelId THEN updatedPanel ELSE script[i]]
    ELSE Append(script, updatedPanel)

\* data.comicScript.map(p => p.panelId === panelId ? updatedPanel : p)
ReplacePanel(script, panelId, updatedPanel) ==
    [i \in DOMAIN script |-> IF script[i].panelId = panelId THEN updatedPanel ELSE script[i]]

\* App.handleUpdatePanel, with the data of the render the handler closed over
handleUpdatePanel(d, panelId, updatedPanel) ==
    IF d = Null THEN d
    ELSE Some([Val(d) EXCEPT !.comicScript = ReplacePanel(@, panelId, updatedPanel)])

\* EditForm's Save Text: ComicGenerator.handleSave(panel) -> onUpdatePanel, setEditingId(null)
SaveText ==
    /\ Ready
    /\ cg.form # Null
    /\ Render(appState, handleUpdatePanel(data, Val(cg.form).panelId, Val(cg.form)),
              activeTab, input, [cg EXCEPT !.editingId = 0, !.form = Null], lg, regens)
    /\ UNCHANGED <<errorMsg, reads, runs, resume>>
    /\ ops < MaxOps
    /\ ops' = ops + 1

\* the Redraw button of panel p, disabled={isRegenerating === p}:
\* handleRegenerateClick -> App.handleRegeneratePanelImage up to its await.
\* The request keeps the data of the render the handler closed over.
RedrawClick(p) ==
    /\ Ready
    /\ CGMounted(appState, data, activeTab)
    /\ p \in PanelIds(Val(data).comicScript)
    /\ cg.isRegenerating # p
    /\ Len(regens) < MaxRegens
    /\ cg' = [cg EXCEPT !.isRegenerating = p]
    /\ regens' = Append(regens, [panelId |-> p, closure |-> Val(data),
                                 alive |-> TRUE, stale |-> FALSE])
    /\ UNCHANGED <<appState, data, activeTab, errorMsg, input, reads, runs, resume, lg>>
    /\ ops < MaxOps
    /\ ops' = ops + 1

\* handleRegeneratePanelImage after await generateImage(..):
\* setData({...data, comicScript: data.comicScript.map(..)}) on the closed-over data
Regenerated(cur, closure, panelId, g) ==
    IF g.threw THEN cur
    ELSE Some([closure EXCEPT !.comicScript =
                  [i \in DOMAIN @ |-> IF @[i].panelId = panelId
                                       THEN [@[i] EXCEPT !.imageUrl = g.url] ELSE @[i]]])

RemoveAt(s, k) == [i \in 1..(Len(s) - 1) |-> IF i < k THEN s[i] ELSE s[i + 1]]

\* the request of regens[k] settles; then handleRegenerateClick goes on to
\* setIsRegenerating(null), which is lost when its ComicGenerator is gone
RegenSettles(k, ok, img) ==
    /\ Ready
    /\ k \in DOMAIN regens
    /\ Render(appState,
              Regenerated(data, regens[k].closure, regens[k].panelId, generateImage(ok, img)),
              activeTab, input,
              IF regens[k].alive THEN [cg EXCEPT !.isRegenerating = 0] ELSE cg,
              lg, RemoveAt(regens, k))
    /\ UNCHANGED <<errorMsg, reads, runs, resume, ops>>

(* ----------------------------- LogicGraph ----------------------------- *)
\* the Edit Logic button: setIsEditing(true); the effect's cleanup stops the simulation
EditLogic ==
    /\ Ready
    /\ LGMounted(appState, data, activeTab)
    /\ ~lg.isEditing
    /\ lg' = Effect([lg EXCEPT !.isEditing = TRUE], Val(data).logicGraph, TRUE)
    /\ UNCHANGED <<appState, data, activeTab, errorMsg, input, reads, runs, resume, cg, regens, ops>>

\* handleUpdateLogic replacing the nodes only
handleUpdateLogicNodesOnly(d, newGraphData) ==
    IF d = Null THEN d ELSE Some([Val(d) EXCEPT !.logicGraph.nodes = newGraphData.nodes])

\* App.handleUpdateLogic, with the data of the render the handler closed over
handleUpdateLogic(d, newGraphData) ==
    IF d = Null THEN d ELSE Some([Val(d) EXCEPT !.logicGraph = newGraphData])

\* a Cancel button wired to what Save Changes does
CancelThatSaves ==
    /\ Ready
    /\ lg.isEditing
    /\ Render(appState, handleUpdateLogic(data, lg.editData), activeTab, input, cg,
              [lg EXCEPT !.isEditing = FALSE], regens)
    /\ UNCHANGED <<errorMsg, reads, runs, resume, ops>>

\* the Cancel button: setIsEditing(false); editData is kept, the effect
\* builds the layout of data again
CancelLogic ==
    /\ Ready
    /\ lg.isEditing
    /\ lg' = Effect([lg EXCEPT !.isEditing = FALSE], Val(data).logicGraph, TRUE)
    /\ UNCHANGED <<appState, data, activeTab, errorMsg, input, reads, runs, resume, cg, regens, ops>>

\* removeNode(idx): editData.nodes.filter((_, i) => i !== idx)
removeNode(idx) ==
    /\ Ready
    /\ lg.isEditing
    /\ idx \in DOMAIN lg.editData.nodes
    /\ lg' = [lg EXCEPT !.editData.nodes = RemoveAt(@, idx)]
    /\ UNCHANGED <<appState, data, activeTab, errorMsg, input, reads, runs, resume, cg, regens, ops>>

\* removeLink(idx): editData.links.filter((_, i) => i !== idx)
removeLink(idx) ==
    /\ Ready
    /\ lg.isEditing
    /\ idx \in DOMAIN lg.editData.links
    /\ lg' = [lg EXCEPT !.editData.links = RemoveAt(@, idx)]
    /\ UNCHANGED <<appState, data, activeTab, errorMsg, input, reads, runs, resume, cg, regens, ops>>

\* LogicGraph.handleSave: onUpdate(editData); setIsEditing(false)
handleSave ==
    /\ Ready
    /\ lg.isEditing
    /\ Render(appState, handleUpdateLogic(data, lg.editData), activeTab, input, cg,
              [lg EXCEPT !.isEditing = FALSE], regens)
    /\ UNCHANGED <<errorMsg, reads, runs, resume>>

\* the Save Changes button
SaveLogic ==
    /\ handleSave
    /\ ops < MaxOps
    /\ ops' = ops + 1

\* the ids addNode makes of the clock: `n${Date.now()}`
Stamp == <<"n1", "n2", "n3", "n4">>

\* addNode: a node with the id made of Date.now() is appended. t is the
\* reading of the clock, an input: it has millisecond resolution, so it may
\* be the same at two calls.
addNode(t) ==
    /\ Ready
    /\ lg.isEditing
    /\ Len(lg.editData.nodes) < MaxNodes
    /\ lg' = [lg EXCEPT !.editData.nodes = Append(@, [id |-> Stamp[t], label |-> "New", group |-> 1])]
    /\ ops < MaxEdits
    /\ ops' = ops + 1
    /\ UNCHANGED <<appState, data, activeTab, errorMsg, input, reads, runs, resume, cg, regens>>

\* updateNode(idx, field, val), from the id and label inputs of a node row
updateNode(idx, field, val) ==
    /\ Ready
    /\ lg.isEditing
    /\ idx \in DOMAIN lg.editData.nodes
    /\ lg.editData.nodes[idx][field] # val
    /\ lg' = [lg EXCEPT !.editData.nodes[idx][field] = val]
    /\ ops < MaxEdits
    /\ ops' = ops + 1
    /\ UNCHANGED <<appState, data, activeTab, errorMsg, input, reads, runs, resume, cg, regens>>

\* addLink: { source: editData.nodes[0]?.id || '', target: '', relationship: '' }
addLink ==
    /\ Ready
    /\ lg.isEditing
    /\ Len(lg.editData.links) < MaxLinks
    /\ lg' = [lg EXCEPT !.editData.links =
                  Append(@, [source |-> IF lg.editData.nodes = <<>> THEN ""
                                        ELSE lg.editData.nodes[1].id,
                             target |-> "", relationship |-> ""])]
    /\ ops < MaxEdits
    /\ ops' = ops + 1
    /\ UNCHANGED <<appState, data, activeTab, errorMsg, input, reads, runs, resume, cg, regens>>

\* updateLink(idx, field, val), from the three inputs of a link row
updateLink(idx, field, val) ==
    /\ Ready
    /\ lg.isEditing
    /\ idx \in DOMAIN lg.editData.links
    /\ lg.editData.links[idx][field] # val
    /\ lg' = [lg EXCEPT !.editData.links[idx][field] = val]
    /\ ops < MaxEdits
    /\ ops' = ops + 1
    /\ UNCHANGED <<appState, data, activeTab, errorMsg, input, reads, runs, resume, cg, regens>>

(* ----------------------- LogicGraph: the layout ----------------------- *)
Positions == 0..MaxPos

TickOnDocument ==
    /\ Ready
    /\ lg.sim.status = "running"
    /\ \E f \in [DOMAIN lg.sim.nodes -> Positions] :
          LET ns == lg.sim.nodes
              dn == Val(data).logicGraph.nodes
          IN  /\ lg' = [lg EXCEPT !.sim.nodes =
                           [i \in DOMAIN ns |->
                               [ns[i] EXCEPT !.x = IF ns[i].fx = Null THEN f[i] ELSE Val(ns[i].fx)]]]
              /\ data' = Some([Val(data) EXCEPT !.logicGraph.nodes =
                           [i \in DOMAIN dn |->
                               [id |-> dn[i].id, label |-> dn[i].label,
                                group |-> dn[i].group, x |-> f[i]]]])
    /\ UNCHANGED <<appState, activeTab, errorMsg, input, reads, runs, resume, cg, regens, ops>>

\* one tick of the simulation: the forces move every node that is not
\* pinned (to a position the model leaves open), a pinned node is put at its pin
Tick ==
    /\ Ready
    /\ lg.sim.status = "running"
    /\ \E f \in [DOMAIN lg.sim.nodes -> Positions] :
          LET ns == lg.sim.nodes
          IN  lg' = [lg EXCEPT !.sim.nodes =
                        [i \in DOMAIN ns |->
                            [ns[i] EXCEPT !.x = IF ns[i].fx = Null THEN f[i] ELSE Val(ns[i].fx)]]]
    /\ UNCHANGED <<appState, data, activeTab, errorMsg, input, reads, runs, resume, cg, regens, ops>>

\* dragstarted(event, d): d.fx = d.x
dragstarted(i) ==
    /\ Ready
    /\ lg.sim.status = "running"
    /\ i \in DOMAIN lg.sim.nodes
    /\ i \notin lg.sim.dragging
    /\ Cardinality(lg.sim.dragging) < MaxDrags
    /\ lg' = [lg EXCEPT !.sim.nodes[i].fx = Some(lg.sim.nodes[i].x),
                        !.sim.dragging = @ \cup {i}]
    /\ UNCHANGED <<appState, data, activeTab, errorMsg, input, reads, runs, resume, cg, regens, ops>>

\* dragged(event, d): d.fx = event.x
dragged(i, ex) ==
    /\ Ready
    /\ lg.sim.status = "running"
    /\ i \in lg.sim.dragging
    /\ lg.sim.nodes[i].fx # Some(ex)
    /\ lg' = [lg EXCEPT !.sim.nodes[i].fx = Some(ex)]
    /\ UNCHANGED <<appState, data, activeTab, errorMsg, input, reads, runs, resume, cg, regens, ops>>

\* dragended without d.fx = null
dragendedKeepsPin(i) ==
    /\ Ready
    /\ lg.sim.status = "running"
    /\ i \in lg.sim.dragging
    /\ lg' = [lg EXCEPT !.sim.dragging = @ \ {i}]
    /\ UNCHANGED <<appState, data, activeTab, errorMsg, input, reads, runs, resume, cg, regens, ops>>

\* dragended(event, d): d.fx = null
dragended(i) ==
    /\ Ready
    /\ lg.sim.status = "running"
    /\ i \in lg.sim.dragging
    /\ lg' = [lg EXCEPT !.sim.nodes[i].fx = Null, !.sim.dragging = @ \ {i}]
    /\ UNCHANGED <<appState, data, activeTab, errorMsg, input, reads, runs, resume, cg, regens, ops>>

(* ------------------------------- Next --------------------------------- *)
Next ==
    \/ \E t \in Texts : SetText(t)
    \/ handleFileChange
    \/ handleRemoveImage
    \/ handleSubmit
    \/ ReadDone
    \/ ReadFails
    \/ \E r \in DOMAIN runs : AnalysisFails(r)
    \/ \E r \in DOMAIN runs, res \in ValidResults : AnalysisReturns(r, res)
    \/ \E r \in DOMAIN runs, res \in MalformedResults : AnalysisReturnsMalformed(r, res)
    \/ \E r \in DOMAIN runs, i \in 1..MaxPanels, ok \in BOOLEAN, img \in Images :
          PanelImageSettles(r, i, ok, img)
    \/ \E r \in DOMAIN runs, j \in 1..MaxVocab, ok \in BOOLEAN, img \in Images :
          VocabImageSettles(r, j, ok, img)
    \/ \E r \in DOMAIN runs : Join(r)
    \/ StartOver
    \/ \E tab \in {"comic", "logic", "vocab"} : SetActiveTab(tab)
    \/ \E p \in 1..MaxPanels : ToggleEdit(p)
    \/ \E c \in Captions : EditCaption(c)
    \/ \E d \in Dialogues : EditDialogue(d)
    \/ SaveText
    \/ \E p \in 1..MaxPanels : RedrawClick(p)
    \/ \E k \in 1..MaxRegens, ok \in BOOLEAN, img \in Images :
          RegenSettles(k, ok, img)
    \/ EditLogic
    \/ CancelLogic
    \/ \E idx \in 1..Len(Graph0.nodes) : removeNode(idx)
    \/ \E idx \in 1..Len(Graph0.links) : removeLink(idx)
    \/ SaveLogic

Spec == Init /\ [][Next]_vars


(* ------------- handleUpdatePanel as a function of its arguments ------- *)
\* the Documents a call may find: null, or a result of up to MaxPanels
\* panels, each with or without an image
ImageFields == {NoImage} \cup Images

Scripts ==
    UNION {{[i \in 1..n |-> [NewPanel(i) EXCEPT !.imageUrl = f[i]]] : f \in [1..n -> ImageFields]}
              : n \in 0..MaxPanels}

Documents ==
    {Null} \cup {Some([AnalysisResult("s1", 0, MaxVocab, {}) EXCEPT !.comicScript = sc]) : sc \in Scripts}

\* the panel ids a caller may pass: those of a Document, 0 and MaxPanels + 1
CallIds == 0..(MaxPanels + 1)

CallPanels ==
    {[NewPanel(q) EXCEPT !.caption = c, !.characterDialogue = d] :
        q \in CallIds, c \in Captions, d \in Dialogues}

\* Here cg.editingId and cg.form hold the arguments panelId and updatedPanel
\* of the call to come, and ops counts the calls made.
InitUpdatePanel ==
    /\ appState = "COMPLETE"
    /\ data \in Documents
    /\ activeTab = "comic"
    /\ errorMsg = NoMsg
    /\ input = InputInit
    /\ reads = 0
    /\ runs = <<>>
    /\ resume = 0
    /\ cg \in {[editingId |-> id, isRegenerating |-> 0, form |-> Some(p)] :
                  id \in CallIds, p \in CallPanels}
    /\ regens = <<>>
    /\ lg = LGInit
    /\ ops = 0

\* onUpdatePanel(panelId, updatedPanel): setData of what handleUpdatePanel computes
UpdatePanelCall ==
    /\ ops = 0
    /\ data' = handleUpdatePanel(data, cg.editingId, Val(cg.form))
    /\ ops' = 1
    /\ UNCHANGED <<appState, activeTab, errorMsg, input, reads, runs, resume, cg, regens, lg>>

NextUpdatePanel == UpdatePanelCall

SpecUpdatePanel == InitUpdatePanel /\ [][NextUpdatePanel]_vars


(* --------------------- LogicGraph on its own -------------------------- *)
\* the results view with the logic tab open, showing the graph g
GraphView(g) ==
    /\ appState = "COMPLETE"
    /\ data = Some([AnalysisResult("s1", MaxPanels, MaxVocab, {}) EXCEPT !.logicGraph = g])
    /\ activeTab = "logic"
    /\ errorMsg = NoMsg
    /\ input = InputInit
    /\ reads = 0
    /\ runs = <<>>
    /\ resume = 0
    /\ cg = CGInit
    /\ regens = <<>>
    /\ lg = [isEditing |-> FALSE, editData |-> g, sim |-> BuildLayout(g)]
    /\ ops = 0

\* what the user types into the inputs of a node row and of a link row
NodeEdits == {<<"id", "b">>, <<"id", Stamp[1]>>, <<"label", "L">>}
LinkEdits == {<<"source", "b">>, <<"target", "b">>, <<"target", "">>, <<"relationship", "q">>}

\* the editor: every scratch edit, Edit Logic, Cancel, Save Changes
InitGraph == GraphView(Graph0)

NextGraph ==
    \/ EditLogic
    \/ CancelLogic
    \/ \E t \in 1..MaxClock : addNode(t)
    \/ \E idx \in 1..MaxNodes : removeNode(idx)
    \/ \E idx \in 1..MaxNodes, e \in NodeEdits : updateNode(idx, e[1], e[2])
    \/ addLink
    \/ \E idx \in 1..MaxLinks : removeLink(idx)
    \/ \E idx \in 1..MaxLinks, e \in LinkEdits : updateLink(idx, e[1], e[2])
    \/ handleSave /\ UNCHANGED ops

SpecGraph == InitGraph /\ [][NextGraph]_vars

\* a graph of three nodes in a chain
Graph3 ==
    [nodes |-> Append(Graph0.nodes, [id |-> "c", label |-> "C", group |-> 3]),
     links |-> Append(Graph0.links, [source |-> "b", target |-> "c", relationship |-> "r"])]

\* the layout: ticks and drags, and what rebuilds it (Edit Logic, Cancel,
\* Save Changes after removals, a tab switch)
InitLayout == \E g \in {Graph0, Graph3} : GraphView(g)

NextLayout ==
    \/ Tick
    \/ \E i \in 1..MaxNodes : dragstarted(i)
    \/ \E i \in 1..MaxNodes, ex \in Positions : dragged(i, ex)
    \/ \E i \in 1..MaxNodes : dragended(i)
    \/ EditLogic
    \/ CancelLogic
    \/ handleSave /\ UNCHANGED ops
    \/ \E tab \in {"comic", "logic", "vocab"} : SetActiveTab(tab)
    \/ \E idx \in 1..MaxNodes : removeNode(idx)
    \/ \E idx \in 1..MaxLinks : removeLink(idx)

SpecLayout == InitLayout /\ [][NextLayout]_vars

\* the layout of the two-node graph, with one more way a graph arrives: a
\* regenerate result brings back the graph of the document it started from
InitLayoutRegen == GraphView(Graph0)

NextLayoutRegen ==
    \/ Tick
    \/ \E i \in 1..MaxNodes : dragstarted(i)
    \/ \E i \in 1..MaxNodes, ex \in Positions : dragged(i, ex)
    \/ \E i \in 1..MaxNodes : dragended(i)
    \/ EditLogic
    \/ CancelLogic
    \/ handleSave /\ UNCHANGED ops
    \/ \E tab \in {"comic", "logic", "vocab"} : SetActiveTab(tab)
    \/ \E idx \in 1..MaxNodes : removeNode(idx)
    \/ \E idx \in 1..MaxLinks : removeLink(idx)
    \/ \E p \in 1..MaxPanels : RedrawClick(p)
    \/ \E k \in 1..MaxRegens, ok \in BOOLEAN, img \in Images : RegenSettles(k, ok, img)

SpecLayoutRegen == InitLayoutRegen /\ [][NextLayoutRegen]_vars


(* ======================= the claims, C1 to C10 ======================== *)
\* a regenerate request without the flag Render maintains
Core(rg) == [k \in DOMAIN rg |-> [panelId |-> rg[k].panelId, closure |-> rg[k].closure,
                                  stale |-> rg[k].stale]]

\* this step applies the result of the regenerate request regens[k]
RegenApplied(k) == Len(regens') = Len(regens) - 1 /\ Core(regens') = RemoveAt(Core(regens), k)

\* this step is the join of run r: the merge of its fan-out and COMPLETE
Joins(r) == runs[r].pc = "joining" /\ runs'[r].pc = "complete"

\* this step invokes handleAnalyze
Invoked == Len(runs') = Len(runs) + 1

\* C1: a result whose request was issued before a reset or before the start
\* of a new run changes nothing in the session when it is applied: neither
\* the merge of a stale run nor the result of a stale regenerate request
\* changes appState, data or errorMsg.
C1_StaleResultsDiscarded ==
    [][/\ \A k \in DOMAIN regens :
            (regens[k].stale /\ RegenApplied(k)) => UNCHANGED <<appState, data, errorMsg>>
       /\ \A r \in DOMAIN runs :
            (runs[r].stale /\ Joins(r)) => UNCHANGED <<appState, data, errorMsg>>]_vars

\* C2: handleAnalyze invoked while appState is ANALYZING, GENERATING_IMAGES
\* or COMPLETE is a no-op: appState, data and errorMsg keep their values and
\* no analysis request is issued.
C2_IdempotentStartGuard ==
    [][(Invoked /\ appState \in {"ANALYZING", "GENERATING_IMAGES", "COMPLETE"})
          => /\ UNCHANGED <<appState, data, errorMsg>>
             /\ runs'[Len(runs')].pc # "analyzing"]_vars

LegalTransitions ==
    {<<"IDLE", "ANALYZING">>, <<"ERROR", "ANALYZING">>,
     <<"ANALYZING", "GENERATING_IMAGES">>, <<"ANALYZING", "ERROR">>,
     <<"GENERATING_IMAGES", "COMPLETE">>, <<"GENERATING_IMAGES", "ERROR">>,
     <<"COMPLETE", "IDLE">>, <<"ERROR", "IDLE">>}

\* C3: every change of appState is one of the legal transitions of the
\* pipeline state machine.
C3_OnlyLegalTransitions ==
    [][appState' # appState => <<appState, appState'>> \in LegalTransitions]_vars

Failed(batch) == {i \in DOMAIN batch : batch[i].status = "fail"}

\* the merged batch of a fan-out in which exactly one call failed: as many
\* items as issued, every item whose call succeeded has an image, and the
\* failed item is the item as it was before the fan-out
OneFailureIsolated(batch, items) ==
    Cardinality(Failed(batch)) = 1 =>
        /\ Len(Values(batch)) = Len(items)
        /\ \A i \in DOMAIN batch :
              IF batch[i].status = "fail"
              THEN Values(batch)[i] = items[i]
              ELSE Values(batch)[i] = [items[i] EXCEPT !.imageUrl = Values(batch)[i].imageUrl]
                   /\ Values(batch)[i].imageUrl # NoImage

\* C4: when Promise.all of a run has resolved and exactly one call of a batch
\* failed, the batch has all its items in order, the others carry an image,
\* and the failed item is unchanged, its image absent.
C4_PerItemFailureIsolation ==
    \A r \in DOMAIN runs :
        runs[r].pc = "joining" =>
            /\ OneFailureIsolated(runs[r].comic, Val(runs[r].result).comicScript)
            /\ OneFailureIsolated(runs[r].vocab, Val(runs[r].result).vocabulary)

\* two lists hold the same items in the same order, image fields aside
SameButImages(a, b) ==
    /\ Len(a) = Len(b)
    /\ \A i \in DOMAIN a : [a[i] EXCEPT !.imageUrl = NoImage] = [b[i] EXCEPT !.imageUrl = NoImage]

\* C5: when a run reaches COMPLETE, the Document's comicScript and vocabulary
\* are the lists its analysis returned, in length, identity and order, image
\* fields aside.
C5_OrderAndIdentityPreserved ==
    [][\A r \in DOMAIN runs :
          Joins(r) =>
             /\ data' # Null
             /\ SameButImages(Val(data').comicScript, Val(runs[r].result).comicScript)
             /\ SameButImages(Val(data').vocabulary, Val(runs[r].result).vocabulary)]_vars

\* C6: when the analysis call of a run fails, appState is ERROR, data is
\* null, errorMsg is set and the run has issued no image request.
C6_AnalysisFailureIsFatal ==
    [][\A r \in DOMAIN runs :
          (runs[r].pc = "analyzing" /\ runs'[r].pc = "rejected") =>
             /\ appState' = "ERROR"
             /\ data' = Null
             /\ errorMsg' # NoMsg
             /\ runs'[r].comic = <<>> /\ runs'[r].vocab = <<>>]_vars

\* C7: whenever appState is IDLE the session holds no Document.
C7_IdleHoldsNoDocument == appState = "IDLE" => data = Null

\* this step settles a request of run r, which is past its analysis
SettlesRequestOf(r) ==
    /\ runs[r].pc = "generating"
    /\ \/ Pending(runs'[r].comic) # Pending(runs[r].comic)
       \/ Pending(runs'[r].vocab) # Pending(runs[r].vocab)

\* C8: once the analysis of a run has returned a valid response, whatever
\* image calls fail, no step of the run sets ERROR or an error message, and
\* the run ends by setting COMPLETE.
C8_SynthesisFailuresAbsorbed ==
    [][\A r \in DOMAIN runs :
          /\ SettlesRequestOf(r) =>
                /\ UNCHANGED <<appState, errorMsg>>
                /\ runs'[r].pc \in {"generating", "joining"}
          /\ runs[r].pc = "joining" =>
                \/ UNCHANGED runs
                \/ Joins(r) /\ appState' = "COMPLETE" /\ errorMsg' = errorMsg]_vars

\* a run whose image calls all failed has ended in COMPLETE, with no error message
C8_Witness ==
    /\ appState = "COMPLETE"
    /\ errorMsg = NoMsg
    /\ ops = 0
    /\ data # Null
    /\ Len(Val(data).comicScript) = MaxPanels
    /\ \A i \in DOMAIN Val(data).comicScript : Val(data).comicScript[i].imageUrl = FailedUrl
    /\ \A j \in DOMAIN Val(data).vocabulary : Val(data).vocabulary[j].imageUrl = FailedUrl

\* C9: a run becomes complete only when every request of both its batches
\* has settled, and while one is pending its continuation is not queued.
C9_AllSettleJoin ==
    [][\A r \in DOMAIN runs :
          /\ (runs'[r].pc = "complete" /\ runs[r].pc # "complete") =>
                \A i \in DOMAIN runs[r].comic : runs[r].comic[i].status # "pending"
          /\ (runs'[r].pc = "complete" /\ runs[r].pc # "complete") =>
                \A j \in DOMAIN runs[r].vocab : runs[r].vocab[j].status # "pending"
          /\ (runs'[r].pc = "joining" /\ resume' = r) =>
                /\ \A i \in DOMAIN runs'[r].comic : runs'[r].comic[i].status # "pending"
                /\ \A j \in DOMAIN runs'[r].vocab : runs'[r].vocab[j].status # "pending"]_vars

\* the continuation of a run with requests in both batches is queued, all settled
C9_Witness ==
    \E r \in DOMAIN runs :
        /\ runs[r].pc = "joining"
        /\ resume = r
        /\ Len(runs[r].comic) = MaxPanels
        /\ Len(runs[r].vocab) = MaxVocab

\* C10: the result of a regenerate request for panel p whose call succeeded
\* replaces only the image of panel p in the Document as it is when the
\* result is applied.
C10_RegenerateReplacesOnlyImage ==
    [][\A k \in DOMAIN regens :
          (/\ RegenApplied(k)
           /\ ~regens[k].stale
           /\ data # Null
           /\ FindPanel(Val(data').comicScript, regens[k].panelId).imageUrl \in Images)
          => \E img \in Images :
                data' = Some([Val(data) EXCEPT !.comicScript =
                                [i \in DOMAIN @ |->
                                    IF @[i].panelId = regens[k].panelId
                                    THEN [@[i] EXCEPT !.imageUrl = img] ELSE @[i]]])]_vars

(* ======================= the claims, C11 to C20 ======================= *)
\* C11: when the synthesis call of a regenerate request fails, applying its
\* outcome leaves the Document, the pipeline state and the error message as
\* they were.
C11_FailedRegenerateChangesNothing ==
    [][\A k \in DOMAIN regens, img \in Images :
          RegenSettles(k, FALSE, img) => UNCHANGED <<data, appState, errorMsg>>]_vars

\* the Document d with the caption and dialogue of panel p replaced
TextPatched(d, p, caption, dialogue) ==
    [d EXCEPT !.comicScript =
        [i \in DOMAIN @ |-> IF @[i].panelId = p
                            THEN [@[i] EXCEPT !.caption = caption, !.characterDialogue = dialogue]
                            ELSE @[i]]]

\* C12: Save Text changes only the caption and the dialogue of the panel
\* edited; its id, prompt and current image, the other panels, the
\* vocabulary and the graph are as they were just before the save.
C12_SaveTextChangesOnlyText ==
    [][SaveText =>
          data' = Some(TextPatched(Val(data), Val(cg.form).panelId,
                                   Val(cg.form).caption, Val(cg.form).characterDialogue))]_vars

\* C20: a panel text patch, the result of a regenerate request or a graph
\* save changes the Document only while appState is COMPLETE.
C20_EditsOnlyWhileComplete ==
    [][(/\ appState # "COMPLETE"
        /\ \/ SaveText
           \/ SaveLogic
           \/ \E k \in DOMAIN regens, ok \in BOOLEAN, img \in Images : RegenSettles(k, ok, img))
          => data' = data]_vars

\* C13: handleUpdatePanel called with no Document, or with a panel id that
\* matches no panel of the Document, leaves the Document as it was: no panel
\* added, removed, reordered or modified.
C13_UnknownPanelIdIsNoOp ==
    [][(UpdatePanelCall /\ (data = Null \/ cg.editingId \notin PanelIds(Val(data).comicScript)))
          => data' = data]_vars

\* a call whose id matched none of the MaxPanels panels has been made
C13_Witness ==
    /\ ops = 1
    /\ data # Null
    /\ Len(Val(data).comicScript) = MaxPanels
    /\ cg.editingId \notin PanelIds(Val(data).comicScript)
    /\ Val(cg.form).panelId = cg.editingId

\* this step is a scratch edit of the graph editor
ScratchEdit ==
    \/ \E t \in 1..MaxClock : addNode(t)
    \/ \E idx \in 1..MaxNodes : removeNode(idx)
    \/ \E idx \in 1..MaxNodes, e \in NodeEdits : updateNode(idx, e[1], e[2])
    \/ addLink
    \/ \E idx \in 1..MaxLinks : removeLink(idx)
    \/ \E idx \in 1..MaxLinks, e \in LinkEdits : updateLink(idx, e[1], e[2])

\* C14: no scratch edit and no cancel changes the Document, so after any
\* edits and a cancel its graph is the one it had when Editing was entered;
\* a scratch edit stays in Editing, and cancel ends in Simulated mode with
\* the layout running.
C14_CancelLeavesGraph ==
    [][/\ ScratchEdit => (data' = data /\ lg'.isEditing)
       /\ EditLogic => data' = data
       /\ CancelLogic => /\ data' = data
                         /\ ~lg'.isEditing
                         /\ lg'.sim.status = "running"]_vars

\* scratch edits were made and cancelled: the Document still holds the first graph
C14_Witness ==
    /\ ops > 0
    /\ ~lg.isEditing
    /\ lg.sim.status = "running"
    /\ Val(data).logicGraph = Graph0
    /\ lg.editData # Graph0

\* C15: whenever Editing mode is entered, the scratch copy is the Document's
\* current graph (a cancelled session leaves nothing behind).
C15_EnterEditingFromDocument ==
    [][EditLogic => lg'.editData = Val(data).logicGraph]_vars

\* C16: Save Changes replaces the Document's graph by exactly the scratch
\* copy in one step, leaves summary, comicScript and vocabulary as they
\* were and leaves Editing mode; before it no scratch edit shows in the
\* Document.
C16_SaveReplacesGraph ==
    [][/\ handleSave => /\ data' = Some([Val(data) EXCEPT !.logicGraph = lg.editData])
                        /\ ~lg'.isEditing
                        /\ lg'.editData = lg.editData
       /\ ScratchEdit => data' = data]_vars

\* a save of accumulated edits has been made: a node added and the link removed
C16_Witness ==
    /\ ~lg.isEditing
    /\ lg.sim.status = "running"
    /\ lg.editData = Val(data).logicGraph
    /\ Len(Val(data).logicGraph.nodes) = Len(Graph0.nodes) + 1
    /\ Val(data).logicGraph.links = <<>>

\* C17: Save Changes stores the scratch copy as it is, dangling links
\* included, and the layout of the saved graph is built (the simulation runs).
C17_DanglingLinksTolerated ==
    [][handleSave => /\ Val(data').logicGraph = lg.editData
                     /\ lg'.sim.status = "running"]_vars

\* C18: the id addNode gives the new node is the id of no node of the
\* scratch copy.
C18_AddNodeFreshId ==
    [][\A t \in 1..MaxClock : addNode(t) => Stamp[t] \notin NodeIds(lg.editData)]_vars

\* a node is pinned only while a drag of it is in progress
PinnedOnlyWhileDragged ==
    \A i \in DOMAIN lg.sim.nodes : lg.sim.nodes[i].fx # Null => i \in lg.sim.dragging

\* this step is a drag handler called for node i
DragHandler(i) ==
    \/ dragstarted(i)
    \/ \E ex \in Positions : dragged(i, ex)
    \/ dragended(i)

\* C19: a drag handler sets nothing but the pin of the node dragged: the
\* positions of all nodes and the pins of the others stay, and after drag
\* end the pin is removed; so in every state a node is pinned only while a
\* drag of it is in progress.
C19_DragPinsOnlyDraggedNode ==
    [][/\ PinnedOnlyWhileDragged /\ PinnedOnlyWhileDragged'
       /\ \A i \in DOMAIN lg.sim.nodes :
             DragHandler(i) =>
                /\ \A j \in DOMAIN lg.sim.nodes :
                      /\ lg'.sim.nodes[j].x = lg.sim.nodes[j].x
                      /\ j # i => lg'.sim.nodes[j] = lg.sim.nodes[j]
                /\ dragended(i) => lg'.sim.nodes[i].fx = Null]_vars

\* a node is dragged, pinned away from where it is, while another moved freely
C19_Witness ==
    /\ lg.sim.status = "running"
    /\ \E i \in lg.sim.dragging, j \in DOMAIN lg.sim.nodes :
          /\ lg.sim.nodes[i].fx = Some(MaxPos)
          /\ lg.sim.nodes[i].x = StartPos
          /\ j \notin lg.sim.dragging
          /\ lg.sim.nodes[j].fx = Null
          /\ lg.sim.nodes[j].x # StartPos

(* ======================= the claims, C21 to C30 ======================= *)
\* C21: an analysis response that lacks comicScript or vocabulary is a fatal
\* analysis failure: the step that receives it leaves the Document null,
\* sets ERROR, and the run has issued no image request.
C21_MalformedResponseIsFatal ==
    [][\A r \in DOMAIN runs, res \in MalformedResults :
          AnalysisReturnsMalformed(r, res) =>
             /\ data' = Null
             /\ appState' = "ERROR"
             /\ runs'[r].comic = <<>> /\ runs'[r].vocab = <<>>]_vars

\* C29: errorMsg is set exactly when appState is ERROR.
C29_ErrorMsgIffError == (errorMsg # NoMsg) <=> (appState = "ERROR")

\* C30: while ComicGenerator is shown, the Redraw control of every panel with
\* a regenerate request in flight is disabled, and no two requests in flight
\* are for the same panel.
C30_RedrawDisabledWhileInFlight ==
    /\ CGMounted(appState, data, activeTab) =>
          \A k \in DOMAIN regens : cg.isRegenerating = regens[k].panelId
    /\ \A k1, k2 \in DOMAIN regens : regens[k1].panelId = regens[k2].panelId => k1 = k2

(* ------------- the analysis pipeline alone: input and runs ------------ *)
AnalysisSettles ==
    \E r \in DOMAIN runs :
       \/ AnalysisFails(r)
       \/ \E res \in ValidResults : AnalysisReturns(r, res)
       \/ \E res \in MalformedResults : AnalysisReturnsMalformed(r, res)

ImageSettles ==
    \E r \in DOMAIN runs, ok \in BOOLEAN, img \in Images :
       \/ \E i \in 1..MaxPanels : PanelImageSettles(r, i, ok, img)
       \/ \E j \in 1..MaxVocab : VocabImageSettles(r, j, ok, img)

Resumes == \E r \in DOMAIN runs : Join(r)

NextRun ==
    \/ \E t \in Texts : SetText(t)
    \/ handleFileChange
    \/ handleRemoveImage
    \/ handleSubmit
    \/ ReadDone
    \/ ReadFails
    \/ AnalysisSettles
    \/ ImageSettles
    \/ Resumes
    \/ StartOver

SpecRun == Init /\ [][NextRun]_vars

\* every call to a collaborator settles, and a continuation that is ready runs
SpecRunFair ==
    /\ SpecRun
    /\ WF_vars(AnalysisSettles)
    /\ WF_vars(ImageSettles)
    /\ WF_vars(Resumes)

IsBlank(t) == t \in {"", " "}

Ended(run) == run.pc \in {"complete", "rejected", "threw"}

\* C22: a submit starts a run only with text that is not blank or with a
\* selected file; a submit of blank text without a file changes nothing.
C22_BlankSubmitRefused ==
    [][/\ (Invoked /\ reads' = reads) => ~IsBlank(input.text)
       /\ (handleSubmit /\ IsBlank(input.text) /\ ~input.selectedFile) =>
             (runs' = runs /\ reads' = reads /\ appState' = appState
                /\ data' = data /\ errorMsg' = errorMsg)]_vars

C22_Witness ==
    /\ input.text = " " /\ ~input.selectedFile
    /\ InputMounted(appState) /\ Ready
    /\ Len(runs) + reads < MaxRuns

\* C23: if every call settles, every run that was started ends, in COMPLETE
\* or in ERROR.
C23_EveryRunEnds ==
    /\ \A r \in 1..MaxRuns : (r \in DOMAIN runs) ~> (r \in DOMAIN runs /\ Ended(runs[r]))
    /\ [][\A r \in DOMAIN runs :
             (~Ended(runs[r]) /\ Ended(runs'[r])) =>
                /\ appState' \in {"COMPLETE", "ERROR"}
                /\ (appState' = "COMPLETE") = (runs'[r].pc = "complete")]_vars

C23_Witness ==
    \E r \in DOMAIN runs :
       /\ runs[r].pc = "complete"
       /\ appState = "COMPLETE"


IssuesRequests(r) ==
    /\ r \in DOMAIN runs'
    /\ IF r \in DOMAIN runs
       THEN \/ Len(runs'[r].comic) > Len(runs[r].comic)
            \/ Len(runs'[r].vocab) > Len(runs[r].vocab)
       ELSE runs'[r].comic # <<>> \/ runs'[r].vocab # <<>>

NoImagesYet(d) ==
    /\ \A i \in DOMAIN d.comicScript : d.comicScript[i].imageUrl = NoImage
    /\ \A j \in DOMAIN d.vocabulary : d.vocabulary[j].imageUrl = NoImage

\* C24: a run issues image requests only in the step in which its analysis
\* has returned a result with both lists, and the step that sets
\* GENERATING_IMAGES stores that result, without images, as the Document.
C24_AnalysisBeforeSynthesis ==
    [][/\ \A r \in 1..MaxRuns :
             IssuesRequests(r) =>
                /\ r \in DOMAIN runs
                /\ runs[r].pc = "analyzing"
                /\ runs'[r].pc \in {"generating", "joining"}
       /\ \A r \in DOMAIN runs :
             (runs[r].pc = "analyzing" /\ runs'[r].pc \in {"generating", "joining"}) =>
                /\ appState' = "GENERATING_IMAGES"
                /\ runs'[r].result # Null
                /\ data' = runs'[r].result
                /\ NoImagesYet(Val(data'))
       /\ (appState' = "GENERATING_IMAGES" /\ appState # "GENERATING_IMAGES") =>
             \E r \in DOMAIN runs :
                runs[r].pc = "analyzing" /\ runs'[r].pc \in {"generating", "joining"}]_vars

\* C25: the step in which the analysis of a run returns issues one request
\* for every panel and one for every vocabulary item, all pending at once;
\* afterwards the run issues no further request and a settled request is
\* never issued again.
C25_MaximalFanOut ==
    [][\A r \in DOMAIN runs :
          /\ (runs[r].pc = "analyzing" /\ runs'[r].pc \in {"generating", "joining"}) =>
                LET res == Val(runs'[r].result)
                IN  /\ DOMAIN runs'[r].comic = DOMAIN res.comicScript
                    /\ DOMAIN runs'[r].vocab = DOMAIN res.vocabulary
                    /\ \A i \in DOMAIN res.comicScript :
                          runs'[r].comic[i] = [status |-> "pending", value |-> res.comicScript[i]]
                    /\ \A j \in DOMAIN res.vocabulary :
                          runs'[r].vocab[j] = [status |-> "pending", value |-> res.vocabulary[j]]
          /\ (runs[r].pc \in {"generating", "joining", "threw"} /\ runs'[r].pc # "complete") =>
                /\ DOMAIN runs'[r].comic = DOMAIN runs[r].comic
                /\ DOMAIN runs'[r].vocab = DOMAIN runs[r].vocab
                /\ \A i \in DOMAIN runs[r].comic :
                      runs[r].comic[i].status # "pending" => runs'[r].comic[i] = runs[r].comic[i]
                /\ \A j \in DOMAIN runs[r].vocab :
                      runs[r].vocab[j].status # "pending" => runs'[r].vocab[j] = runs[r].vocab[j]]_vars

C25_Witness ==
    \E r \in DOMAIN runs :
       /\ runs[r].pc = "generating"
       /\ Pending(runs[r].comic) = 1..MaxPanels
       /\ Pending(runs[r].vocab) = 1..MaxVocab


\* a layout just built for graph g: every node at the default position,
\* no pin, no drag
FreshLayout(sim, g) ==
    /\ sim.dragging = {}
    /\ DOMAIN sim.nodes = DOMAIN g.nodes
    /\ \A i \in DOMAIN g.nodes :
          sim.nodes[i] = [id |-> g.nodes[i].id, x |-> StartPos, fx |-> Null]

Simulated(st, d, tab, l) == LGMounted(st, d, tab) /\ ~l.isEditing /\ l.sim.status = "running"

\* this step enters Simulated mode: LogicGraph was not shown, or was editing,
\* or the graph of the Document changed
EntersSimulated ==
    /\ Simulated(appState', data', activeTab', lg')
    /\ \/ ~LGMounted(appState, data, activeTab)
       \/ lg.isEditing
       \/ Val(data').logicGraph # Val(data).logicGraph

\* C26: every step that enters Simulated mode leaves a layout built from
\* scratch for the Document's graph (default positions, no pin), and a step
\* that leaves Simulated mode leaves no simulation running.
C26_LayoutBuiltFromScratch ==
    [][/\ EntersSimulated => FreshLayout(lg'.sim, Val(data').logicGraph)
       /\ (Simulated(appState, data, activeTab, lg)
             /\ ~Simulated(appState', data', activeTab', lg')) =>
                lg'.sim.status # "running" /\ lg'.sim.nodes = <<>>]_vars

\* Save Changes after a removal has entered Simulated mode with a new graph
C26_Witness ==
    /\ Simulated(appState, data, activeTab, lg)
    /\ Val(data).logicGraph \notin {Graph0, Graph3}
    /\ FreshLayout(lg.sim, Val(data).logicGraph)
    /\ regens # <<>>

\* C27: while editing no simulation runs and the layout is not touched:
\* no step between two editing states changes it, ticks and drag handlers
\* happen outside editing only; and the scratch copy is edited only while
\* editing.
C27_ModesExclusive ==
    /\ [](lg.isEditing => lg.sim = StoppedSim)
    /\ [][/\ (lg.isEditing /\ lg'.isEditing) => lg'.sim = lg.sim
          /\ (Tick \/ \E i \in 1..MaxNodes : DragHandler(i)) => ~lg.isEditing /\ ~lg'.isEditing
          /\ (/\ LGMounted(appState, data, activeTab)
              /\ LGMounted(appState', data', activeTab')
              /\ data' = data
              /\ lg'.editData # lg.editData) => lg.isEditing]_vars

\* editing, with a scratch copy that differs from the Document's graph
C27_Witness ==
    /\ lg.isEditing
    /\ lg.editData # Val(data).logicGraph
    /\ lg.sim.status = "stopped"

GraphFieldsOnly(g) ==
    /\ \A i \in DOMAIN g.nodes : DOMAIN g.nodes[i] = {"id", "label", "group"}
    /\ \A k \in DOMAIN g.links : DOMAIN g.links[k] = {"source", "target", "relationship"}

\* C28: a tick or a drag handler leaves the Document as it is, and the
\* nodes and links of the Document's graph never have a field other than
\* id, label, group and source, target, relationship.
C28_SimulationLeavesDocument ==
    /\ [](data # Null => GraphFieldsOnly(Val(data).logicGraph))
    /\ [][(Tick \/ \E i \in 1..MaxNodes : DragHandler(i)) => data' = data]_vars

\* the layout has moved and a node is pinned, over the graph as displayed first
C28_Witness ==
    /\ lg.sim.status = "running"
    /\ Val(data).logicGraph = Graph3
    /\ \A i \in DOMAIN lg.sim.nodes : lg.sim.nodes[i].x # StartPos
    /\ \E i \in lg.sim.dragging : lg.sim.nodes[i].fx # Null

====
